---- MODULE Spec2Model ----
(***************************************************************************)
(* A model of cdba: the client (cdba.c) and the server (cdba-server.c)     *)
(* exchanging length-prefixed frames over byte streams.                    *)
(*                                                                         *)
(* Bytes are naturals in 0..255.  A frame is a 3-byte header (type, length *)
(* low byte, length high byte) followed by `length` payload bytes.         *)
(***************************************************************************)
EXTENDS Integers, Sequences, FiniteSets, TLC

(***************************************************************************)
(* Bounds of the model.                                                    *)
(***************************************************************************)
\* capacity of a receive ring buffer (bytes); one slot is always kept free
CIRC_BUF_SIZE == 32
\* number of frames the client side writes to the server's standard input
MaxSrvFrames == 3
\* number of keys typed on the terminal
MaxTyped == 3
\* number of CONSOLE frames the server sends
MaxConsoleFrames == 3
\* number of frames the server writes to a client that only receives
MaxCliFrames == 3
\* the boot image holds at most this many chunks of full size and a rest
MaxFullChunks == 2
\* number of FASTBOOT_PRESENT frames the server writes while an image is streamed
MaxPresent == 1
\* number of writes that report EAGAIN
MaxAgain == 2
\* -c: the number of power cycles the command line asks for, at most
MaxCycles == 1
\* power cycles followed below a counter of zero
MaxExtraCycles == 1
\* -T: the inactivity timeout is 0 (not given) or this many seconds
MaxInactivity == 1
\* -t: the total timeout, seconds
MaxTotal == 2
\* number of frames the server writes in a session with deadlines
MaxSessionFrames == 2
MaxTimers == 2
MaxTimeout == 2
MaxSrvTime == 4
MaxQueueKeys == 1
MaxQueueFrames == 2
MaxWrites == 2
MaxWriteKeys == 2
MaxClock == 4
MaxExpiryFrames == 2

(***************************************************************************)
(* Message types (cdba.h, listed in the order of section 6 of the spec).   *)
(***************************************************************************)
MSG_SELECT_BOARD == 1
MSG_CONSOLE == 2
MSG_HARDRESET == 3
MSG_POWER_ON == 4
MSG_POWER_OFF == 5
MSG_FASTBOOT_PRESENT == 6
MSG_FASTBOOT_DOWNLOAD == 7
MSG_FASTBOOT_BOOT == 8
MSG_STATUS_UPDATE == 9
MSG_VBUS_ON == 10
MSG_VBUS_OFF == 11
MSG_SEND_BREAK == 12
MSG_LIST_DEVICES == 13
MSG_BOARD_INFO == 14
MSG_FASTBOOT_CONTINUE == 15
\* a type value no peer knows
MSG_UNKNOWN == 99

\* sizeof(struct msg): the header, one type byte and a 16-bit length
MSG_HDR == 3

\* the null device pointer
NULL == 0

(***************************************************************************)
(* Frame codec.                                                            *)
(***************************************************************************)
Msg(type, data) == [type |-> type, len |-> Len(data), data |-> data]

\* the bytes of a frame as the sender lays them out: struct msg, then data
Encode(m) == <<m.type, m.len % 256, m.len \div 256>> \o m.data

\* the length field of a header, as the receiver reads it
HdrLen(hdr) == hdr[2] + 256 * hdr[3]

(***************************************************************************)
(* The ring buffer (circ_buf): buf[0..CIRC_BUF_SIZE-1], head is the write  *)
(* position, tail the read position.                                       *)
(***************************************************************************)
EmptyCirc == [buf |-> [i \in 0..(CIRC_BUF_SIZE - 1) |-> 0], head |-> 0, tail |-> 0]

CIRC_AVAIL(c) == (c.head + CIRC_BUF_SIZE - c.tail) % CIRC_BUF_SIZE

CIRC_SPACE(c) == CIRC_BUF_SIZE - 1 - CIRC_AVAIL(c)

\* the unread bytes of the ring, oldest first
CircBytes(c) == [i \in 1..CIRC_AVAIL(c) |-> c.buf[(c.tail + i - 1) % CIRC_BUF_SIZE]]

\* copy up to n unread bytes without consuming them; the result's length is
\* what circ_peak returns
circ_peak(c, n) ==
    IF CIRC_AVAIL(c) < n THEN <<>>
    ELSE [i \in 1..n |-> c.buf[(c.tail + i - 1) % CIRC_BUF_SIZE]]

\* consume n bytes: the bytes and the ring with its read position advanced
circ_read(c, n) ==
    [data |-> [i \in 1..n |-> c.buf[(c.tail + i - 1) % CIRC_BUF_SIZE]],
     circ |-> [c EXCEPT !.tail = (c.tail + n) % CIRC_BUF_SIZE]]

\* store the bytes a read(2) returned at the write position
circ_fill(c, bytes) ==
    [c EXCEPT !.buf = [i \in 0..(CIRC_BUF_SIZE - 1) |->
                          LET k == (i + CIRC_BUF_SIZE - c.head) % CIRC_BUF_SIZE
                          IN  IF k < Len(bytes) THEN bytes[k + 1] ELSE c.buf[i]],
              !.head = (c.head + Len(bytes)) % CIRC_BUF_SIZE]

(***************************************************************************)
(* State.                                                                  *)
(***************************************************************************)
VARIABLES
    \* ---- server process (cdba-server.c)
    srv_pc,             \* "run", "done" (main returned) or "exit1" (exit(1))
    srv_stdin,          \* bytes written to the server's stdin, not yet read
    srv_stdin_closed,   \* the writer closed the stream
    srv_recv_buf,       \* handle_stdin's static ring buffer
    selected_device,    \* the device handle, NULL when none
    quit_invoked,
    fastboot_payload,   \* the reassembly buffer; fastboot_size is its length
    srv_stdout,         \* frames cdba_send_buf wrote, in order
    backend,            \* calls made to the device back-end, in order
    srv_sent,           \* history: frames written to the server's stdin
    srv_rx,             \* history: bytes handle_stdin has read so far
    srv_delivered,      \* history: messages handle_stdin dispatched
    timer_watches,      \* the list of pending timers, each [tv, cb]
    srv_now,            \* the server's clock (gettimeofday)
    srv_log,            \* history: callbacks run by the latest loop iteration
    timers_added,       \* history: number of timers registered so far
    \* ---- client process (cdba.c): command line
    verb,               \* CDBA_BOOT, CDBA_LIST or CDBA_INFO
    power_cycle_on_timeout,
    fastboot_repeat,
    timeout_inactivity, \* -T, seconds; 0 when not given
    timeout_total,      \* -t, seconds
    image_size,         \* st_size of the boot image
    has_tty,            \* stdin is a terminal (orig_tios is not NULL)
    \* ---- client process: program state
    cli_pc,             \* "top", "select", "tty", "stderr", "stdout", "work", "exited"
    quit,
    special,            \* tty_callback's static flag
    power_off_chars,    \* handle_console's static counter
    received_power_off,
    reached_timeout,
    fastboot_done,
    auto_power_on,
    power_cycles,
    work_items,         \* the work queue, head first
    cli_recv_buf,       \* main's ring buffer for the server's stdout
    now,                \* the clock, seconds
    timeout_total_tv,
    timeout_inactivity_tv,
    rfds,               \* descriptors select reported ready: "tty", "err", "out", "in"
    exit_code,          \* the exit status; -1 while running
    exit_cause,         \* history: the statement that ended the loop
    ssh_stdin,          \* frames the client wrote to the server, in order
    next_id,            \* history: number of work items allocated
    cli_delivered,      \* history: messages handle_message dispatched
    eagain,             \* history: number of writes that reported EAGAIN
    \* ---- the client's environment
    tty_in,             \* terminal bytes typed, not yet read
    tty_rx,             \* history: terminal bytes read
    tty_reads,          \* history: number of reads of the terminal
    ssh_stdout,         \* bytes the server wrote, not yet read
    ssh_stdout_closed,
    cli_sent,           \* history: frames the server wrote
    cli_rx              \* history: bytes read from the server's stdout

srv_vars == <<srv_pc, srv_stdin, srv_stdin_closed, srv_recv_buf, selected_device,
              quit_invoked, fastboot_payload, srv_stdout, backend, srv_sent,
              srv_rx, srv_delivered, timer_watches, srv_now, srv_log,
              timers_added>>

cfg_vars == <<verb, power_cycle_on_timeout, fastboot_repeat, timeout_inactivity,
              timeout_total, image_size, has_tty>>

cli_vars == <<cli_pc, eagain, quit, special, power_off_chars, received_power_off, reached_timeout,
              fastboot_done, auto_power_on, power_cycles, work_items, cli_recv_buf, now,
              timeout_total_tv, timeout_inactivity_tv, rfds, exit_code, exit_cause,
              ssh_stdin, next_id, cli_delivered>>

env_vars == <<tty_in, tty_rx, tty_reads, ssh_stdout, ssh_stdout_closed, cli_sent, cli_rx>>

vars == <<srv_vars, cfg_vars, cli_vars, env_vars>>

(***************************************************************************)
(* Server: message handlers.  A handler takes the server state as a record *)
(* and returns the state it leaves.                                        *)
(***************************************************************************)
\* boards of the inventory the user may open; any other name is refused
Boards == {1, 2}

\* device back-end open: the handle of the named board, or NULL
device_open(param) == IF Len(param) > 0 /\ param[1] \in Boards THEN param[1] ELSE NULL

\* a call into the device back-end on the selected device
BackEndCall(s, op, arg) ==
    [s EXCEPT !.backend = Append(@, [op |-> op, dev |-> s.selected_device, arg |-> arg])]

cdba_send_buf(s, type, buf) == [s EXCEPT !.out = Append(@, Msg(type, buf))]

cdba_send(s, type) == cdba_send_buf(s, type, <<>>)

msg_select_board(s, param) ==
    LET dev == device_open(param)
        s1 == [s EXCEPT !.selected_device = dev,
                        !.quit_invoked = IF dev = NULL THEN TRUE ELSE @]
    IN  cdba_send(s1, MSG_SELECT_BOARD)

\* msg_fastboot_download without the reset of the buffer after the boot
msg_fastboot_download_noreset(s, data) ==
    LET s1 == [s EXCEPT !.fastboot_payload = @ \o data]
    IN  IF Len(data) = 0
        THEN cdba_send(BackEndCall(s1, "boot", s1.fastboot_payload), MSG_FASTBOOT_DOWNLOAD)
        ELSE s1

msg_fastboot_download(s, data) ==
    LET s1 == [s EXCEPT !.fastboot_payload = @ \o data]
    IN  IF Len(data) = 0
        THEN [cdba_send(BackEndCall(s1, "boot", s1.fastboot_payload), MSG_FASTBOOT_DOWNLOAD)
                 EXCEPT !.fastboot_payload = <<>>]
        ELSE s1

msg_fastboot_continue(s) ==
    cdba_send(BackEndCall(s, "fastboot_continue", <<>>), MSG_FASTBOOT_CONTINUE)

\* the switch of handle_stdin
SrvDispatch(s, msg) ==
    CASE msg.type = MSG_CONSOLE -> BackEndCall(s, "write", msg.data)
      [] msg.type = MSG_FASTBOOT_PRESENT -> s
      [] msg.type = MSG_SELECT_BOARD -> msg_select_board(s, msg.data)
      [] msg.type = MSG_HARDRESET -> s
      [] msg.type = MSG_POWER_ON -> cdba_send(BackEndCall(s, "power", <<1>>), MSG_POWER_ON)
      [] msg.type = MSG_POWER_OFF -> cdba_send(BackEndCall(s, "power", <<0>>), MSG_POWER_OFF)
      [] msg.type = MSG_FASTBOOT_DOWNLOAD -> msg_fastboot_download(s, msg.data)
      [] msg.type = MSG_FASTBOOT_BOOT -> s
      [] msg.type = MSG_STATUS_UPDATE -> BackEndCall(s, "status_enable", <<>>)
      [] msg.type = MSG_VBUS_ON -> BackEndCall(s, "usb", <<1>>)
      [] msg.type = MSG_VBUS_OFF -> BackEndCall(s, "usb", <<0>>)
      [] msg.type = MSG_SEND_BREAK -> BackEndCall(s, "send_break", <<>>)
      [] msg.type = MSG_LIST_DEVICES -> [s EXCEPT !.backend = Append(@, [op |-> "list_devices", dev |-> NULL, arg |-> <<>>])]
      [] msg.type = MSG_BOARD_INFO -> [s EXCEPT !.backend = Append(@, [op |-> "info", dev |-> NULL, arg |-> msg.data])]
      [] msg.type = MSG_FASTBOOT_CONTINUE -> msg_fastboot_continue(s)
      [] OTHER -> [s EXCEPT !.pc = "exit1"]

\* the two tests that open the for (;;) loop of handle_stdin: a whole header
\* can be peeked, and the ring holds the header and hdr.len bytes
SrvFrameReady(buf) ==
    LET hdr == circ_peak(buf, MSG_HDR)
    IN  /\ Len(hdr) = MSG_HDR
        /\ ~(CIRC_AVAIL(buf) < MSG_HDR + HdrLen(hdr))

\* the for (;;) loop of handle_stdin: decode and dispatch every complete
\* frame of the ring; stop at the first incomplete one
RECURSIVE SrvDecodeLoop(_)
SrvDecodeLoop(s) ==
    LET hdr == circ_peak(s.recv_buf, MSG_HDR)
    IN  IF ~SrvFrameReady(s.recv_buf) THEN s
        ELSE LET r == circ_read(s.recv_buf, MSG_HDR + HdrLen(hdr))
                 msg == [type |-> r.data[1], len |-> HdrLen(hdr),
                         data |-> SubSeq(r.data, MSG_HDR + 1, MSG_HDR + HdrLen(hdr))]
                 s1 == SrvDispatch([s EXCEPT !.recv_buf = r.circ,
                                             !.delivered = Append(@, msg)], msg)
             IN  IF s1.pc = "exit1" THEN s1 ELSE SrvDecodeLoop(s1)

\* the done: label of main: close the selected device, return 0
SrvDone(s) ==
    [(IF s.selected_device # NULL THEN BackEndCall(s, "close", <<>>) ELSE s)
        EXCEPT !.pc = "done"]

SrvState ==
    [pc |-> srv_pc, recv_buf |-> srv_recv_buf, selected_device |-> selected_device,
     quit_invoked |-> quit_invoked, fastboot_payload |-> fastboot_payload,
     out |-> srv_stdout, backend |-> backend, delivered |-> srv_delivered,
     timer_watches |-> timer_watches, now |-> srv_now, log |-> srv_log,
     added |-> timers_added]

SrvStore(s) ==
    /\ srv_pc' = s.pc
    /\ srv_recv_buf' = s.recv_buf
    /\ selected_device' = s.selected_device
    /\ quit_invoked' = s.quit_invoked
    /\ fastboot_payload' = s.fastboot_payload
    /\ srv_stdout' = s.out
    /\ backend' = s.backend
    /\ srv_delivered' = s.delivered
    /\ timer_watches' = s.timer_watches
    /\ srv_now' = s.now
    /\ srv_log' = s.log
    /\ timers_added' = s.added

(***************************************************************************)
(* Client: the program state as a record, for the handlers below.          *)
(***************************************************************************)
CDBA_BOOT == 0
CDBA_LIST == 1
CDBA_INFO == 2

\* bytes the terminal sends
ESC_PREFIX == 1
KEY_q == 113
KEY_P == 80
KEY_p == 112
KEY_s == 115
KEY_V == 86
KEY_v == 118
KEY_a == 97
KEY_B == 66
\* the character of the power-off sentinel, '~'
TILDE == 126
\* value of power_off_chars at which the next '~' completes the sentinel
POWER_OFF_RUN == 19
\* largest payload of one FASTBOOT_DOWNLOAD frame
FASTBOOT_CHUNK == 2048
\* sizeof(buf) of tty_callback
TTY_BUF == 32
\* sleep(2) before the automatic power on
POWER_ON_DELAY == 2
\* exit statuses of main
EXIT_OK == 0
EXIT_FAIL == 1
EXIT_TIMEOUT == 2
EXIT_TIMEOUT_FASTBOOT == 110

CliState ==
    [pc |-> cli_pc, quit |-> quit, special |-> special,
     power_off_chars |-> power_off_chars, received_power_off |-> received_power_off,
     reached_timeout |-> reached_timeout, fastboot_done |-> fastboot_done,
     auto_power_on |-> auto_power_on, power_cycles |-> power_cycles,
     work_items |-> work_items, recv_buf |-> cli_recv_buf, now |-> now,
     timeout_total_tv |-> timeout_total_tv,
     timeout_inactivity_tv |-> timeout_inactivity_tv, rfds |-> rfds,
     exit_code |-> exit_code, exit_cause |-> exit_cause, wire |-> ssh_stdin,
     next_id |-> next_id, delivered |-> cli_delivered, eagain |-> eagain,
     ret |-> 0, wr |-> <<>>]

CliStore(c) ==
    /\ cli_pc' = c.pc
    /\ quit' = c.quit
    /\ special' = c.special
    /\ power_off_chars' = c.power_off_chars
    /\ received_power_off' = c.received_power_off
    /\ reached_timeout' = c.reached_timeout
    /\ fastboot_done' = c.fastboot_done
    /\ auto_power_on' = c.auto_power_on
    /\ power_cycles' = c.power_cycles
    /\ work_items' = c.work_items
    /\ cli_recv_buf' = c.recv_buf
    /\ now' = c.now
    /\ timeout_total_tv' = c.timeout_total_tv
    /\ timeout_inactivity_tv' = c.timeout_inactivity_tv
    /\ rfds' = c.rfds
    /\ exit_code' = c.exit_code
    /\ exit_cause' = c.exit_cause
    /\ ssh_stdin' = c.wire
    /\ next_id' = c.next_id
    /\ cli_delivered' = c.delivered
    /\ eagain' = c.eagain

\* a frame written to ssh_fds[0].  src names the writer: 0 for tty_callback,
\* else the id of the work item
Frame(type, data, src) ==
    [type |-> type, len |-> Len(data), data |-> data, src |-> src]

CliWrite(c, frame) == [c EXCEPT !.wire = Append(@, frame)]

\* err(1, ...): the process ends at once with status 1
CliErr(c, cause) == [c EXCEPT !.pc = "exited", !.exit_code = EXIT_FAIL, !.exit_cause = cause]

(***************************************************************************)
(* Client: tty_callback.                                                   *)
(***************************************************************************)
\* c.wr holds the outcomes of the coming calls of write(2) on ssh_fds[0],
\* TRUE for written and FALSE for EAGAIN (the pipe is non-blocking and full);
\* past its end the pipe has room
Written(c) == c.wr = <<>> \/ Head(c.wr)

AfterWrite(c) == [c EXCEPT !.wr = IF @ = <<>> THEN @ ELSE Tail(@)]

\* write(ssh_fds[0], &hdr, sizeof(hdr)), then for a payload a second
\* write(2); neither result is looked at.  A header that went out alone is
\* on the wire with len set and no data, a payload that went out alone is on
\* the wire with no header (type NULL)
tty_write(c, type, data) ==
    LET o1 == Written(c)
        c1 == AfterWrite(c)
        o2 == Written(c1)
        c2 == AfterWrite(c1)
    IN  IF data = <<>> THEN (IF o1 THEN CliWrite(c1, Frame(type, <<>>, 0)) ELSE c1)
        ELSE CASE o1 /\ o2 -> CliWrite(c2, Frame(type, data, 0))
               [] o1 /\ ~o2 -> CliWrite(c2, [Frame(type, data, 0) EXCEPT !.data = <<>>])
               [] ~o1 /\ o2 -> CliWrite(c2, [Frame(NULL, data, 0) EXCEPT !.len = 0])
               [] OTHER -> c2

\* the body of the for loop, for one byte of the buffer
tty_byte(c, b) ==
    IF b = ESC_PREFIX THEN [c EXCEPT !.special = TRUE]
    ELSE IF c.special
    THEN [(CASE b = KEY_q -> [c EXCEPT !.quit = TRUE]
             [] b = KEY_P -> tty_write(c, MSG_POWER_ON, <<>>)
             [] b = KEY_p -> tty_write(c, MSG_POWER_OFF, <<>>)
             [] b = KEY_s -> tty_write(c, MSG_STATUS_UPDATE, <<>>)
             [] b = KEY_V -> tty_write(c, MSG_VBUS_ON, <<>>)
             [] b = KEY_v -> tty_write(c, MSG_VBUS_OFF, <<>>)
             [] b = KEY_a -> tty_write(c, MSG_CONSOLE, <<ESC_PREFIX>>)
             [] b = KEY_B -> tty_write(c, MSG_SEND_BREAK, <<>>)
             [] OTHER -> c)
          EXCEPT !.special = FALSE]
    ELSE tty_write(c, MSG_CONSOLE, <<b>>)

\* the for loop over the n bytes read
RECURSIVE tty_bytes(_, _)
tty_bytes(c, buf) ==
    IF buf = <<>> THEN c ELSE tty_bytes(tty_byte(c, Head(buf)), Tail(buf))

\* tty_callback with special an automatic variable, false at each call
tty_callback_auto(c, buf) == tty_bytes([c EXCEPT !.special = FALSE], buf)

tty_callback(c, buf) == tty_bytes(c, buf)

(***************************************************************************)
(* Client: the work queue and its work functions.                          *)
(***************************************************************************)
\* list_add: link an item at the tail of the queue
list_add(c, w) == [c EXCEPT !.work_items = Append(@, w)]

Work(fn, id) == [fn |-> fn, id |-> id, offset |-> 0, size |-> 0]

\* the two static work items
PowerOnWork == Work("power_on", 1)

PowerOffWork == Work("power_off", 2)

request_power_on(c) == list_add(c, PowerOnWork)

request_power_off(c) == list_add(c, PowerOffWork)

\* a work item obtained from malloc or calloc
NewWork(c, fn, size) ==
    list_add([c EXCEPT !.next_id = @ + 1], [Work(fn, c.next_id) EXCEPT !.size = size])

request_board_list(c) == NewWork(c, "list", 0)

request_board_info(c) == NewWork(c, "info", 0)

request_select_board(c) == NewWork(c, "select_board", 0)

request_fastboot_files(c) == NewWork(c, "fastboot", image_size)

MIN(a, b) == IF a < b THEN a ELSE b

\* the boot image: work->data as request_fastboot_files read it
Image == [i \in 1..image_size |-> i % 251]

\* the chunk memcpy takes from work->data + offset
Chunk(work, left) == SubSeq(Image, work.offset + 1, work.offset + left)

\* the offset moves on whether or not the write went through
fastboot_work_fn_skip(c, work, res) ==
    LET left == MIN(FASTBOOT_CHUNK, work.size - work.offset)
        w1 == [work EXCEPT !.offset = @ + left]
    IN  IF res = "again" THEN list_add([c EXCEPT !.eagain = @ + 1], w1)
        ELSE IF res = "fail" THEN CliErr(c, "err_write")
        ELSE LET c1 == CliWrite(c, Frame(MSG_FASTBOOT_DOWNLOAD, Chunk(work, left), work.id))
             IN  IF left = 0 THEN c1 ELSE list_add(c1, w1)

\* the item was unlinked by the caller; res is the outcome of write(2):
\* "ok", "again" (EAGAIN) or "fail" (any other error)
fastboot_work_fn(c, work, res) ==
    LET left == MIN(FASTBOOT_CHUNK, work.size - work.offset)
    IN  IF res = "again" THEN list_add([c EXCEPT !.eagain = @ + 1], work)
        ELSE IF res = "fail" THEN CliErr(c, "err_write")
        ELSE LET c1 == CliWrite(c, Frame(MSG_FASTBOOT_DOWNLOAD, Chunk(work, left), work.id))
                 w1 == [work EXCEPT !.offset = @ + left]
             IN  IF left = 0 THEN c1 ELSE list_add(c1, w1)

\* list_boards_fn, board_info_fn, select_board_fn, request_power_on_fn and
\* request_power_off_fn: one frame, any write error is fatal
simple_work_fn(c, work, res) ==
    IF res # "ok" THEN CliErr(c, "err_write")
    ELSE CASE work.fn = "list" -> CliWrite(c, Frame(MSG_LIST_DEVICES, <<>>, work.id))
           [] work.fn = "info" -> CliWrite(c, Frame(MSG_BOARD_INFO, <<1, 0>>, work.id))
           [] work.fn = "select_board" -> CliWrite(c, Frame(MSG_SELECT_BOARD, <<1, 0>>, work.id))
           [] work.fn = "power_on" -> CliWrite(c, Frame(MSG_POWER_ON, <<>>, work.id))
           [] work.fn = "power_off" -> CliWrite(c, Frame(MSG_POWER_OFF, <<>>, work.id))

WorkFn(c, work, res) ==
    IF work.fn = "fastboot" THEN fastboot_work_fn(c, work, res)
    ELSE simple_work_fn(c, work, res)

\* one turn of list_for_each_entry_safe over work_items: unlink the first
\* item and run it.  The successor was fetched before the item ran, so the
\* walk ends after the item that was last in the queue when its turn came
WorkTurn(c, res) ==
    LET work == Head(c.work_items)
        last == Len(c.work_items) = 1
        c1 == WorkFn([c EXCEPT !.work_items = Tail(@)], work, res)
    IN  IF c1.pc = "exited" \/ ~last THEN c1 ELSE [c1 EXCEPT !.pc = "top", !.rfds = {}]

(***************************************************************************)
(* Client: handlers of the frames the server sends.                        *)
(***************************************************************************)
\* console_byte that compares the counter with 20 instead of 19
console_byte_late(c, b) ==
    IF b = TILDE
    THEN IF c.power_off_chars = POWER_OFF_RUN + 1
         THEN [c EXCEPT !.received_power_off = TRUE, !.power_off_chars = 0]
         ELSE [c EXCEPT !.power_off_chars = @ + 1]
    ELSE [c EXCEPT !.power_off_chars = 0]

\* the body of the for loop of handle_console, for one byte
console_byte(c, b) ==
    IF b = TILDE
    THEN IF c.power_off_chars = POWER_OFF_RUN
         THEN [c EXCEPT !.received_power_off = TRUE, !.power_off_chars = 0]
         ELSE [c EXCEPT !.power_off_chars = @ + 1]
    ELSE [c EXCEPT !.power_off_chars = 0]

RECURSIVE handle_console(_, _)
handle_console(c, data) ==
    IF data = <<>> THEN c ELSE handle_console(console_byte(c, Head(data)), Tail(data))

handle_list_devices(c, data) == IF Len(data) = 0 THEN [c EXCEPT !.quit = TRUE] ELSE c

handle_board_info(c, data) == [c EXCEPT !.quit = TRUE]

\* the repeat flag is not looked at
fastboot_present_once(c, data) ==
    IF data[1] # 0
    THEN IF ~c.fastboot_done
         THEN request_fastboot_files(c)
         ELSE [c EXCEPT !.quit = TRUE]
    ELSE [c EXCEPT !.fastboot_done = TRUE]

\* quit is set when the endpoint goes away, not when it comes back
fastboot_present_gone(c, data) ==
    IF data[1] # 0
    THEN IF ~c.fastboot_done \/ fastboot_repeat
         THEN request_fastboot_files(c)
         ELSE c
    ELSE [c EXCEPT !.fastboot_done = TRUE,
                   !.quit = IF c.fastboot_done /\ ~fastboot_repeat THEN TRUE ELSE @]

\* case MSG_FASTBOOT_PRESENT of handle_message
fastboot_present(c, data) ==
    IF data[1] # 0
    THEN IF ~c.fastboot_done \/ fastboot_repeat
         THEN request_fastboot_files(c)
         ELSE [c EXCEPT !.quit = TRUE]
    ELSE [c EXCEPT !.fastboot_done = TRUE]

\* case MSG_POWER_OFF of handle_message
power_off_ack(c) ==
    IF c.auto_power_on
    THEN request_power_on([c EXCEPT !.now = @ + POWER_ON_DELAY])
    ELSE c

\* the switch of handle_message; ret is -1 where the code returns -1
CliDispatch(c, msg) ==
    CASE msg.type = MSG_SELECT_BOARD -> request_power_on(c)
      [] msg.type = MSG_CONSOLE -> handle_console(c, msg.data)
      [] msg.type = MSG_HARDRESET -> c
      [] msg.type = MSG_POWER_ON -> c
      [] msg.type = MSG_POWER_OFF -> power_off_ack(c)
      [] msg.type = MSG_FASTBOOT_PRESENT -> fastboot_present(c, msg.data)
      [] msg.type = MSG_FASTBOOT_DOWNLOAD -> c
      [] msg.type = MSG_FASTBOOT_BOOT -> c
      [] msg.type = MSG_STATUS_UPDATE -> c
      [] msg.type = MSG_LIST_DEVICES -> handle_list_devices(c, msg.data)
      [] msg.type = MSG_BOARD_INFO ->
            [handle_board_info(c, msg.data) EXCEPT !.ret = -1, !.exit_cause = "board_info"]
      [] OTHER -> [c EXCEPT !.ret = -1, !.exit_cause = "unknown_type"]

\* the first test alone: a frame is taken as soon as its header is there
CliFrameReady_hdr(buf) == Len(circ_peak(buf, MSG_HDR)) = MSG_HDR

\* the two tests that open the for (;;) loop of handle_message
CliFrameReady(buf) ==
    LET hdr == circ_peak(buf, MSG_HDR)
    IN  /\ Len(hdr) = MSG_HDR
        /\ ~(CIRC_AVAIL(buf) < MSG_HDR + HdrLen(hdr))

\* the for (;;) loop of handle_message
RECURSIVE handle_message(_)
handle_message(c) ==
    LET hdr == circ_peak(c.recv_buf, MSG_HDR)
    IN  IF ~CliFrameReady(c.recv_buf) THEN c
        ELSE LET r == circ_read(c.recv_buf, MSG_HDR + HdrLen(hdr))
                 msg == [type |-> r.data[1], len |-> HdrLen(hdr),
                         data |-> SubSeq(r.data, MSG_HDR + 1, MSG_HDR + HdrLen(hdr))]
                 c1 == CliDispatch([c EXCEPT !.recv_buf = r.circ,
                                             !.delivered = Append(@, msg)], msg)
             IN  IF c1.ret < 0 THEN c1 ELSE handle_message(c1)

(***************************************************************************)
(* Client: main.                                                           *)
(***************************************************************************)
get_timeout(c, sec) == c.now + sec

\* 110 as soon as the fastboot endpoint had shown up
ExitStatus_reached(c) ==
    IF c.reached_timeout
    THEN (IF \E i \in 1..Len(c.delivered) :
                /\ c.delivered[i].type = MSG_FASTBOOT_PRESENT
                /\ c.delivered[i].data[1] # 0
          THEN EXIT_TIMEOUT_FASTBOOT ELSE EXIT_TIMEOUT)
    ELSE (IF c.quit \/ c.received_power_off THEN EXIT_OK ELSE EXIT_FAIL)

\* the last return statement tests nothing
ExitStatus_ok(c) ==
    IF c.reached_timeout
    THEN (IF c.fastboot_done THEN EXIT_TIMEOUT_FASTBOOT ELSE EXIT_TIMEOUT)
    ELSE EXIT_OK

\* the return statements of main
ExitStatus(c) ==
    IF c.reached_timeout
    THEN (IF c.fastboot_done THEN EXIT_TIMEOUT_FASTBOOT ELSE EXIT_TIMEOUT)
    ELSE (IF c.quit \/ c.received_power_off THEN EXIT_OK ELSE EXIT_FAIL)

\* the loop was left (while condition or break): close, wait, return
Epilogue(c, cause) ==
    [c EXCEPT !.pc = "exited", !.exit_code = ExitStatus(c), !.exit_cause = cause,
              !.rfds = {}]

\* the body of if (received_power_off || reached_timeout) past its two breaks
PowerCycle(c) ==
    request_power_off(
        [c EXCEPT !.auto_power_on = TRUE,
                  !.power_cycles = @ - 1,
                  !.received_power_off = FALSE,
                  !.reached_timeout = FALSE,
                  !.timeout_inactivity_tv = get_timeout(c, timeout_inactivity)])

\* the while condition and the power cycle block
LoopTop(c) ==
    IF c.quit THEN Epilogue(c, "quit")
    ELSE IF c.received_power_off \/ c.reached_timeout
    THEN IF c.power_cycles = 0 THEN Epilogue(c, "no_cycles")
         ELSE IF c.reached_timeout /\ ~power_cycle_on_timeout
         THEN Epilogue(c, "no_cycle_on_timeout")
         ELSE [PowerCycle(c) EXCEPT !.pc = "select"]
    ELSE [c EXCEPT !.pc = "select"]

\* the steps that follow select, in program order, with the descriptor each tests
Steps == <<[pc |-> "tty", fd |-> "tty"], [pc |-> "stderr", fd |-> "err"],
           [pc |-> "stdout", fd |-> "out"], [pc |-> "work", fd |-> "in"]>>

\* continue at the first step from the k-th on whose descriptor is set; with
\* none left the iteration is over
RECURSIVE Goto(_, _)
Goto(c, k) ==
    IF k > Len(Steps) THEN [c EXCEPT !.pc = "top", !.rfds = {}]
    ELSE IF Steps[k].fd \in c.rfds THEN [c EXCEPT !.pc = Steps[k].pc]
    ELSE Goto(c, k + 1)

\* the inactivity deadline whenever one is configured
Deadline_inactivity(c) ==
    IF timeout_inactivity # 0 THEN c.timeout_inactivity_tv ELSE c.timeout_total_tv

\* the deadline select waits for
Deadline(c) ==
    IF timeout_inactivity # 0 /\ c.timeout_inactivity_tv < c.timeout_total_tv
    THEN c.timeout_inactivity_tv
    ELSE c.timeout_total_tv

ClientTop ==
    /\ cli_pc = "top"
    /\ CliStore(LoopTop(CliState))
    /\ UNCHANGED <<srv_vars, cfg_vars, env_vars>>

\* select returns at time t with the descriptors of ready set, or with none
\* when the timeout ran out; a negative timeout makes it fail (EINVAL)
ClientSelect(t, ready) ==
    /\ cli_pc = "select"
    /\ LET c == CliState
           d == Deadline(c)
       IN  IF d < now
           THEN /\ t = now /\ ready = {}
                /\ CliStore(CliErr(c, "err_select"))
           ELSE IF ready = {}
           THEN /\ t = d
                /\ CliStore([c EXCEPT !.now = t, !.reached_timeout = TRUE, !.pc = "top"])
           ELSE /\ now <= t /\ t <= d
                /\ "tty" \in ready => has_tty /\ tty_in # <<>>
                /\ "out" \in ready => ssh_stdout # <<>> \/ ssh_stdout_closed
                /\ "in" \in ready => work_items # <<>>
                /\ CliStore(Goto([c EXCEPT !.now = t, !.rfds = ready], 1))
    /\ UNCHANGED <<srv_vars, cfg_vars, env_vars>>

\* time passes while the loop body runs: the next gettimeofday reads a
\* later clock than the one select returned at
ClientTick ==
    /\ cli_pc = "top"
    /\ now < MaxClock
    /\ CliStore([CliState EXCEPT !.now = @ + 1])
    /\ UNCHANGED <<srv_vars, cfg_vars, env_vars>>

\* if (FD_ISSET(STDIN_FILENO, &rfds)) tty_callback(ssh_fds), read returning n
\* bytes; wr is the outcomes of the writes it makes
ClientTty(n, wr) ==
    /\ cli_pc = "tty"
    /\ n \in 1..MIN(TTY_BUF, Len(tty_in))
    /\ CliStore(Goto(tty_callback([CliState EXCEPT !.wr = wr], SubSeq(tty_in, 1, n)), 2))
    /\ tty_in' = SubSeq(tty_in, n + 1, Len(tty_in))
    /\ tty_rx' = tty_rx \o SubSeq(tty_in, 1, n)
    /\ tty_reads' = tty_reads + 1
    /\ UNCHANGED <<srv_vars, cfg_vars, ssh_stdout, ssh_stdout_closed, cli_sent, cli_rx>>

\* if (FD_ISSET(ssh_fds[2], &rfds)): res is the outcome of read(2) on the
\* server's stderr: "data", "eof", "again" or "error"
ClientStderr(res) ==
    /\ cli_pc = "stderr"
    /\ LET c == CliState
       IN  CliStore(CASE res = "eof" -> Epilogue(c, "stderr_eof")
                      [] res = "again" -> [c EXCEPT !.pc = "top", !.rfds = {}]
                      [] res = "error" -> Epilogue(c, "stderr_error")
                      [] res = "data" -> Goto(c, 3))
    /\ UNCHANGED <<srv_vars, cfg_vars, env_vars>>

\* what follows circ_fill in if (FD_ISSET(ssh_fds[1], &rfds))
AfterFill(c) ==
    LET c1 == handle_message(c)
    IN  IF c1.ret < 0 THEN Epilogue(c1, c1.exit_cause)
        ELSE Goto(IF timeout_inactivity # 0
                  THEN [c1 EXCEPT !.timeout_inactivity_tv = get_timeout(c1, timeout_inactivity)]
                  ELSE c1, 4)

\* circ_fill stored n bytes (n = 0: it reported EAGAIN)
ClientStdout(n) ==
    /\ cli_pc = "stdout"
    /\ n \in 0..Len(ssh_stdout)
    /\ n <= CIRC_SPACE(cli_recv_buf)
    /\ n = 0 => ssh_stdout = <<>> \/ CIRC_SPACE(cli_recv_buf) = 0
    /\ LET bytes == SubSeq(ssh_stdout, 1, n)
       IN  /\ CliStore(AfterFill([CliState EXCEPT !.recv_buf = circ_fill(@, bytes)]))
           /\ ssh_stdout' = SubSeq(ssh_stdout, n + 1, Len(ssh_stdout))
           /\ cli_rx' = cli_rx \o bytes
    /\ UNCHANGED <<srv_vars, cfg_vars, tty_in, tty_rx, tty_reads, ssh_stdout_closed, cli_sent>>

\* circ_fill failed with an error other than EAGAIN: the stream ended
ClientStdoutEof ==
    /\ cli_pc = "stdout"
    /\ ssh_stdout = <<>> /\ ssh_stdout_closed
    /\ CliStore(Epilogue(CliState, "stdout_error"))
    /\ UNCHANGED <<srv_vars, cfg_vars, env_vars>>

\* if (FD_ISSET(ssh_fds[0], &wfds)): the walk of the work queue, one item
\* per step; res is the outcome of the item's write
ClientWork(res) ==
    /\ cli_pc = "work"
    /\ CliStore(WorkTurn(CliState, res))
    /\ UNCHANGED <<srv_vars, cfg_vars, env_vars>>

(***************************************************************************)
(* The client's environment: the terminal and the server's stdout.         *)
(***************************************************************************)
EnvType(b) ==
    /\ cli_pc # "off"
    /\ tty_in' = Append(tty_in, b)
    /\ UNCHANGED <<srv_vars, cfg_vars, cli_vars, tty_rx, tty_reads, ssh_stdout, ssh_stdout_closed,
                   cli_sent, cli_rx>>

EnvServerSend(m) ==
    /\ cli_pc # "off"
    /\ ~ssh_stdout_closed
    /\ ssh_stdout' = ssh_stdout \o Encode(m)
    /\ cli_sent' = Append(cli_sent, m)
    /\ UNCHANGED <<srv_vars, cfg_vars, cli_vars, tty_in, tty_rx, tty_reads, ssh_stdout_closed, cli_rx>>

EnvServerClose ==
    /\ cli_pc # "off"
    /\ ~ssh_stdout_closed
    /\ ssh_stdout_closed' = TRUE
    /\ UNCHANGED <<srv_vars, cfg_vars, cli_vars, tty_in, tty_rx, tty_reads, ssh_stdout, cli_sent, cli_rx>>

(***************************************************************************)
(* Initial states.                                                         *)
(***************************************************************************)
\* the state main reaches before its loop, from the command line
ClientFields ==
    /\ quit = FALSE
    /\ special = FALSE
    /\ power_off_chars = 0
    /\ received_power_off = FALSE
    /\ reached_timeout = FALSE
    /\ fastboot_done = FALSE
    /\ auto_power_on = FALSE
    /\ work_items = <<Work(CASE verb = CDBA_BOOT -> "select_board"
                              [] verb = CDBA_LIST -> "list"
                              [] verb = CDBA_INFO -> "info", 3)>>
    /\ cli_recv_buf = EmptyCirc
    /\ now = 0
    /\ timeout_total_tv = timeout_total
    /\ timeout_inactivity_tv = timeout_inactivity
    /\ rfds = {}
    /\ exit_code = -1
    /\ exit_cause = "none"
    /\ ssh_stdin = <<>>
    /\ next_id = 4
    /\ cli_delivered = <<>>
    /\ eagain = 0
    /\ tty_in = <<>>
    /\ tty_rx = <<>>
    /\ tty_reads = 0
    /\ ssh_stdout = <<>>
    /\ ssh_stdout_closed = FALSE
    /\ cli_sent = <<>>
    /\ cli_rx = <<>>

ClientStarted == ClientFields /\ cli_pc = "top"

\* no client process
ClientOff ==
    /\ verb = CDBA_BOOT /\ power_cycle_on_timeout = TRUE /\ fastboot_repeat = FALSE
    /\ timeout_inactivity = 0 /\ timeout_total = 0 /\ image_size = 0 /\ has_tty = FALSE
    /\ power_cycles = 0
    /\ ClientFields
    /\ cli_pc = "off"

(***************************************************************************)
(* Server: the event loop of main.                                         *)
(***************************************************************************)
\* register a timer that expires timeout_ms from now; cb names the callback
watch_timer_add(s, timeout_ms, cb) ==
    [s EXCEPT !.timer_watches = Append(@, [tv |-> s.now + timeout_ms, cb |-> cb]),
              !.added = @ + 1]

\* the select timeout: the time left to the earliest timer, not below zero;
\* NULL (no timeout) is -1 here
watch_timer_next(s) ==
    IF s.timer_watches = <<>> THEN -1
    ELSE LET tvs == {s.timer_watches[i].tv : i \in 1..Len(s.timer_watches)}
             next == CHOOSE tv \in tvs : \A o \in tvs : tv <= o
         IN  IF next - s.now < 0 THEN 0 ELSE next - s.now

\* walk the list from its first entry; every timer whose time is before now
\* has its callback called and is taken off the list
watch_timer_invoke(s) ==
    LET Expired(t) == t.tv < s.now
        Pending(t) == ~Expired(t)
        fired == SelectSeq(s.timer_watches, Expired)
    IN  [s EXCEPT !.log = [i \in 1..Len(fired) |-> [cb |-> "timer", t |-> fired[i]]],
                  !.timer_watches = SelectSeq(@, Pending)]

\* the read callback of the iteration has been entered
ReadCallback(s) == [s EXCEPT !.log = Append(@, [cb |-> "read", t |-> NULL])]

\* one iteration in which select reports stdin readable and read(2) returns
\* n bytes: the expired timers, then circ_fill and the decode loop
SrvHandleStdin(n) ==
    /\ srv_pc = "run" /\ ~quit_invoked
    /\ n \in 1..Len(srv_stdin)
    /\ n <= CIRC_SPACE(srv_recv_buf)
    /\ LET bytes == SubSeq(srv_stdin, 1, n)
           s == SrvDecodeLoop([ReadCallback(watch_timer_invoke(SrvState))
                                   EXCEPT !.recv_buf = circ_fill(@, bytes)])
       IN  /\ SrvStore(s)
           /\ srv_stdin' = SubSeq(srv_stdin, n + 1, Len(srv_stdin))
           /\ srv_rx' = srv_rx \o bytes
    /\ UNCHANGED <<srv_stdin_closed, srv_sent, cfg_vars, cli_vars, env_vars>>

\* one iteration in which read(2) on stdin returns 0 (end of stream) or
\* fails: handle_stdin returns -1 and main jumps to done
SrvStdinEof ==
    /\ srv_pc = "run" /\ ~quit_invoked
    /\ srv_stdin_closed /\ srv_stdin = <<>>
    /\ SrvStore(SrvDone(ReadCallback(watch_timer_invoke(SrvState))))
    /\ UNCHANGED <<srv_stdin, srv_stdin_closed, srv_sent, srv_rx, cfg_vars, cli_vars, env_vars>>

\* while (!quit_invoked) ends: the done block
SrvQuit ==
    /\ srv_pc = "run" /\ quit_invoked
    /\ SrvStore(SrvDone(SrvState))
    /\ UNCHANGED <<srv_stdin, srv_stdin_closed, srv_sent, srv_rx, cfg_vars, cli_vars, env_vars>>

\* select fails with an error other than EINTR: break, then the done block
SrvSelectFail ==
    /\ srv_pc = "run" /\ ~quit_invoked
    /\ SrvStore(SrvDone(SrvState))
    /\ UNCHANGED <<srv_stdin, srv_stdin_closed, srv_sent, srv_rx, cfg_vars, cli_vars, env_vars>>

\* one iteration in which select returns 0: its timeout ran out with no
\* descriptor readable; only the expired timers run
SrvSelectTimeout ==
    /\ srv_pc = "run" /\ ~quit_invoked
    /\ watch_timer_next(SrvState) = 0
    /\ SrvStore(watch_timer_invoke(SrvState))
    /\ UNCHANGED <<srv_stdin, srv_stdin_closed, srv_sent, srv_rx, cfg_vars, cli_vars, env_vars>>

\* the device code registers a timer
SrvTimerAdd(timeout_ms) ==
    /\ srv_pc = "run"
    /\ timers_added < MaxTimers
    /\ SrvStore(watch_timer_add(SrvState, timeout_ms, timers_added + 1))
    /\ UNCHANGED <<srv_stdin, srv_stdin_closed, srv_sent, srv_rx, cfg_vars, cli_vars, env_vars>>

\* the clock advances
SrvTick ==
    /\ srv_pc = "run"
    /\ srv_now < MaxSrvTime
    /\ srv_now' = srv_now + 1
    /\ UNCHANGED <<srv_pc, srv_stdin, srv_stdin_closed, srv_recv_buf, selected_device,
                   quit_invoked, fastboot_payload, srv_stdout, backend, srv_sent, srv_rx,
                   srv_delivered, timer_watches, srv_log, timers_added, cfg_vars, cli_vars, env_vars>>

(***************************************************************************)
(* The writer of the server's stdin.                                       *)
(***************************************************************************)
\* payloads of the download frames written
DownloadPayloads == {<<>>, <<21>>, [i \in 1..12 |-> 30 + i]}

SrvFrames ==
    {Msg(MSG_SELECT_BOARD, <<b, 0>>) : b \in {1, 2, 3}}
    \cup {Msg(MSG_FASTBOOT_DOWNLOAD, d) : d \in DownloadPayloads}
    \cup {Msg(MSG_UNKNOWN, <<>>)}

SrvEnvSend(m) ==
    /\ srv_pc # "off"
    /\ ~srv_stdin_closed
    /\ Len(srv_sent) < MaxSrvFrames
    /\ srv_stdin' = srv_stdin \o Encode(m)
    /\ srv_sent' = Append(srv_sent, m)
    /\ UNCHANGED <<srv_pc, srv_stdin_closed, srv_recv_buf, selected_device, quit_invoked,
                   fastboot_payload, srv_stdout, backend, srv_rx, srv_delivered,
                   timer_watches, srv_now, srv_log, timers_added, cfg_vars, cli_vars, env_vars>>

SrvEnvClose ==
    /\ srv_pc # "off"
    /\ ~srv_stdin_closed
    /\ srv_stdin_closed' = TRUE
    /\ UNCHANGED <<srv_pc, srv_stdin, srv_recv_buf, selected_device, quit_invoked,
                   fastboot_payload, srv_stdout, backend, srv_sent, srv_rx, srv_delivered,
                   timer_watches, srv_now, srv_log, timers_added, cfg_vars, cli_vars, env_vars>>

(***************************************************************************)
(* Specifications.                                                         *)
(***************************************************************************)
ServerStarted ==
    /\ srv_pc = "run"
    /\ srv_stdin = <<>>
    /\ srv_stdin_closed = FALSE
    /\ srv_recv_buf = EmptyCirc
    /\ selected_device = NULL
    /\ quit_invoked = FALSE
    /\ fastboot_payload = <<>>
    /\ srv_stdout = <<>>
    /\ backend = <<>>
    /\ srv_sent = <<>>
    /\ srv_rx = <<>>
    /\ srv_delivered = <<>>
    /\ timer_watches = <<>>
    /\ srv_now = 0
    /\ srv_log = <<>>
    /\ timers_added = 0

\* no server process in the model
ServerOff ==
    /\ srv_pc = "off"
    /\ srv_stdin = <<>>
    /\ srv_stdin_closed = FALSE
    /\ srv_recv_buf = EmptyCirc
    /\ selected_device = NULL
    /\ quit_invoked = FALSE
    /\ fastboot_payload = <<>>
    /\ srv_stdout = <<>>
    /\ backend = <<>>
    /\ srv_sent = <<>>
    /\ srv_rx = <<>>
    /\ srv_delivered = <<>>
    /\ timer_watches = <<>>
    /\ srv_now = 0
    /\ srv_log = <<>>
    /\ timers_added = 0

\* ---- the server alone, fed frames in arbitrary chunks
InitServer == ServerStarted /\ ClientOff

NextServer ==
    \/ \E n \in 1..(CIRC_BUF_SIZE - 1) : SrvHandleStdin(n)
    \/ SrvStdinEof
    \/ SrvQuit
    \/ \E m \in SrvFrames : SrvEnvSend(m)
    \/ SrvEnvClose

SpecServer == InitServer /\ [][NextServer]_vars

\* ---- the ways the server ends
ExitFrames ==
    {Msg(MSG_SELECT_BOARD, <<1, 0>>), Msg(MSG_SELECT_BOARD, <<3, 0>>),
     Msg(MSG_CONSOLE, <<120>>), Msg(MSG_UNKNOWN, <<>>)}

NextServerExit ==
    \/ \E n \in 1..(CIRC_BUF_SIZE - 1) : SrvHandleStdin(n)
    \/ SrvStdinEof
    \/ SrvQuit
    \/ SrvSelectFail
    \/ \E m \in ExitFrames : SrvEnvSend(m)
    \/ SrvEnvClose

SpecServerExit == InitServer /\ [][NextServerExit]_vars

\* ---- the server's timers: registered at any time, with any delay
TimerFrames == {Msg(MSG_CONSOLE, <<120>>)}

NextTimers ==
    \/ \E n \in 1..(CIRC_BUF_SIZE - 1) : SrvHandleStdin(n)
    \/ SrvSelectTimeout
    \/ \E ms \in 0..MaxTimeout : SrvTimerAdd(ms)
    \/ SrvTick
    \/ \E m \in TimerFrames : SrvEnvSend(m)

SpecTimers == InitServer /\ [][NextTimers]_vars

\* a command line whose deadlines do not matter: no clock advance is modelled
NoDeadline ==
    /\ power_cycle_on_timeout = TRUE
    /\ timeout_inactivity = 0
    /\ timeout_total = 1

\* ---- the client with a terminal: keys typed, read in arbitrary chunks
TtyKeys == {ESC_PREFIX, KEY_q, KEY_P, KEY_p, KEY_s, KEY_V, KEY_v, KEY_a, KEY_B, 120}

InitTty ==
    /\ ServerOff
    /\ verb = CDBA_BOOT /\ has_tty = TRUE /\ fastboot_repeat = FALSE /\ image_size = 0
    /\ power_cycles = 0
    /\ NoDeadline
    /\ ClientStarted

NextTty ==
    \/ ClientTop
    \/ ClientSelect(now, {"tty"})
    \/ \E n \in 1..TTY_BUF : ClientTty(n, <<>>)
    \/ \E b \in TtyKeys : Len(tty_rx) + Len(tty_in) < MaxTyped /\ EnvType(b)

SpecTty == InitTty /\ [][NextTty]_vars

\* ---- the client following the console of the server
Tildes(n) == [i \in 1..n |-> TILDE]

ConsolePayloads ==
    {<<120>>, Tildes(1), Tildes(POWER_OFF_RUN), Tildes(3) \o <<120>> \o Tildes(2)}

InitConsole ==
    /\ ServerOff
    /\ verb = CDBA_BOOT /\ has_tty = FALSE /\ fastboot_repeat = FALSE /\ image_size = 0
    /\ power_cycles = 0
    /\ NoDeadline
    /\ ClientStarted

NextConsole ==
    \/ ClientTop
    \/ ClientSelect(now, {"out"})
    \/ \E n \in 0..(CIRC_BUF_SIZE - 1) : ClientStdout(n)
    \/ \E d \in ConsolePayloads :
          Len(cli_sent) < MaxConsoleFrames /\ EnvServerSend(Msg(MSG_CONSOLE, d))

SpecConsole == InitConsole /\ [][NextConsole]_vars

\* ---- streaming of the boot image
ImageSizes == {k * FASTBOOT_CHUNK + r : k \in 0..MaxFullChunks, r \in {0, 1, 904}}

InitBoot ==
    /\ ServerOff
    /\ verb = CDBA_BOOT /\ has_tty = FALSE /\ fastboot_repeat = FALSE
    /\ image_size \in ImageSizes
    /\ power_cycles = 0
    /\ NoDeadline
    /\ ClientStarted

NextBoot ==
    \/ ClientTop
    \/ \E ready \in {{"out"}, {"in"}, {"out", "in"}} : ClientSelect(now, ready)
    \/ ClientStdout(Len(ssh_stdout))
    \/ ClientWork("ok")
    \/ eagain < MaxAgain /\ ClientWork("again")
    \/ Len(cli_sent) < MaxPresent /\ EnvServerSend(Msg(MSG_FASTBOOT_PRESENT, <<1>>))

SpecBoot == InitBoot /\ [][NextBoot]_vars

\* ---- the work queue with more than one item: the acknowledgement of
\* SELECT_BOARD (the server sends one for the one request) and fastboot
\* sightings arrive in any order, a key may be typed at any time
QueueFrames ==
    {Msg(MSG_SELECT_BOARD, <<>>), Msg(MSG_FASTBOOT_PRESENT, <<1>>),
     Msg(MSG_FASTBOOT_PRESENT, <<0>>)}

Acked(sent, type) == \E i \in 1..Len(sent) : sent[i].type = type

InitQueue ==
    /\ ServerOff
    /\ verb = CDBA_BOOT /\ has_tty \in BOOLEAN /\ fastboot_repeat \in BOOLEAN
    /\ image_size \in {0, 1}
    /\ power_cycles = 0
    /\ NoDeadline
    /\ ClientStarted

NextQueue ==
    \/ ClientTop
    \/ \E ready \in (SUBSET {"tty", "out", "in"}) \ {{}} : ClientSelect(now, ready)
    \/ ClientTty(Len(tty_in), <<>>)
    \/ ClientStdout(Len(ssh_stdout))
    \/ ClientWork("ok")
    \/ eagain < MaxAgain /\ ClientWork("again")
    \/ Len(tty_rx) + Len(tty_in) < MaxQueueKeys /\ EnvType(120)
    \/ \E m \in QueueFrames :
          /\ Len(cli_sent) < MaxQueueFrames
          /\ m.type = MSG_SELECT_BOARD => ~Acked(cli_sent, MSG_SELECT_BOARD)
          /\ EnvServerSend(m)

SpecQueue == InitQueue /\ [][NextQueue]_vars

\* ---- writes to a pipe that may be full: keys typed while a boot image
\* is streamed
WriteKeys == {120, ESC_PREFIX, KEY_a, KEY_P}

WriteOutcomes == UNION {[1..k -> BOOLEAN] : k \in 0..MaxWrites}

InitWrites ==
    /\ ServerOff
    /\ verb = CDBA_BOOT /\ has_tty = TRUE /\ fastboot_repeat = FALSE
    /\ image_size \in {0, 1}
    /\ power_cycles = 0
    /\ NoDeadline
    /\ ClientStarted

NextWrites ==
    \/ ClientTop
    \/ \E ready \in (SUBSET {"tty", "out", "in"}) \ {{}} : ClientSelect(now, ready)
    \/ \E wr \in WriteOutcomes : ClientTty(Len(tty_in), wr)
    \/ ClientStdout(Len(ssh_stdout))
    \/ ClientWork("ok")
    \/ eagain < MaxAgain /\ ClientWork("again")
    \/ \E b \in WriteKeys : Len(tty_rx) + Len(tty_in) < MaxWriteKeys /\ EnvType(b)
    \/ Len(cli_sent) < MaxPresent /\ EnvServerSend(Msg(MSG_FASTBOOT_PRESENT, <<1>>))

SpecWrites == InitWrites /\ [][NextWrites]_vars

\* ---- deadlines that run out while the client is at work: the server
\* acknowledges each POWER_OFF request once and may write to the console
ExpiryFrames == {Msg(MSG_POWER_OFF, <<>>), Msg(MSG_CONSOLE, <<120>>)}

\* the frames of one type that the server has yet to answer
Unanswered(type) ==
    Len(SelectSeq(ssh_stdin, LAMBDA f : f.type = type))
        - Len(SelectSeq(cli_sent, LAMBDA m : m.type = type))

InitExpiry ==
    /\ ServerOff
    /\ verb = CDBA_BOOT
    /\ has_tty = FALSE /\ fastboot_repeat = FALSE /\ image_size = 0
    /\ power_cycles \in 0..(MaxCycles + 1)
    /\ power_cycle_on_timeout \in BOOLEAN
    /\ timeout_inactivity \in {0, MaxInactivity}
    /\ timeout_total = MaxTotal
    /\ ClientStarted

NextExpiry ==
    \/ ClientTop
    \/ ClientTick
    \/ \E t \in now..(now + 1), ready \in SUBSET {"out", "in"} : ClientSelect(t, ready)
    \/ ClientStdout(Len(ssh_stdout))
    \/ ClientWork("ok")
    \/ \E m \in ExpiryFrames :
          /\ Len(cli_sent) < MaxExpiryFrames
          /\ m.type = MSG_POWER_OFF => Unanswered(MSG_POWER_OFF) > 0
          /\ EnvServerSend(m)

SpecExpiry == InitExpiry /\ [][NextExpiry]_vars

\* ---- a session with deadlines, power cycles and a server that may fail
SessionFrames ==
    {Msg(MSG_FASTBOOT_PRESENT, <<1>>), Msg(MSG_FASTBOOT_PRESENT, <<0>>),
     Msg(MSG_UNKNOWN, <<>>), Msg(MSG_CONSOLE, Tildes(POWER_OFF_RUN + 1))}

\* -c takes what atoi returns, a negative number included
InitSession ==
    /\ ServerOff
    /\ verb = CDBA_BOOT
    /\ has_tty = FALSE /\ fastboot_repeat = FALSE /\ image_size = 0
    /\ power_cycles \in (-1)..MaxCycles
    /\ power_cycle_on_timeout \in BOOLEAN
    /\ timeout_inactivity \in {0, MaxInactivity}
    /\ timeout_total = MaxTotal
    /\ ClientStarted

NextSession ==
    \/ power_cycles >= -MaxExtraCycles /\ ClientTop
    \/ \E t \in now..(now + 1), ready \in {{}, {"err"}, {"out"}, {"in"}, {"out", "in"}} :
            ClientSelect(t, ready)
    \/ \E res \in {"data", "eof", "again", "error"} : ClientStderr(res)
    \/ ClientStdout(MIN(Len(ssh_stdout), CIRC_SPACE(cli_recv_buf)))
    \/ ClientStdoutEof
    \/ \E res \in {"ok", "fail"} : ClientWork(res)
    \/ \E m \in SessionFrames : Len(cli_sent) < MaxSessionFrames /\ EnvServerSend(m)
    \/ EnvServerClose

SpecSession == InitSession /\ [][NextSession]_vars

\* ---- the info verb: the server answers, or closes the stream
InfoFrames == {Msg(MSG_BOARD_INFO, <<>>), Msg(MSG_BOARD_INFO, <<98, 49>>),
               Msg(MSG_CONSOLE, <<120>>)}

InitInfo ==
    /\ ServerOff
    /\ verb = CDBA_INFO /\ has_tty = FALSE /\ fastboot_repeat = FALSE /\ image_size = 0
    /\ power_cycles = 0
    /\ NoDeadline
    /\ ClientStarted

NextInfo ==
    \/ ClientTop
    \/ \E ready \in {{"err"}, {"out"}, {"in"}, {"err", "out", "in"}} : ClientSelect(now, ready)
    \/ \E res \in {"data", "eof", "again", "error"} : ClientStderr(res)
    \/ \E n \in 0..(CIRC_BUF_SIZE - 1) : ClientStdout(n)
    \/ ClientStdoutEof
    \/ \E res \in {"ok", "fail"} : ClientWork(res)
    \/ \E m \in InfoFrames : Len(cli_sent) < MaxCliFrames /\ EnvServerSend(m)
    \/ EnvServerClose

SpecInfo == InitInfo /\ [][NextInfo]_vars

\* ---- the receive path of either peer: the server, or a client that is
\* sent frames of every kind its switch distinguishes
RecvFrames ==
    {Msg(MSG_CONSOLE, <<120>>), Msg(MSG_CONSOLE, [i \in 1..12 |-> 40 + i]),
     Msg(MSG_FASTBOOT_PRESENT, <<0>>), Msg(MSG_LIST_DEVICES, <<>>),
     Msg(MSG_BOARD_INFO, <<>>), Msg(MSG_UNKNOWN, <<7>>)}

InitRecvClient ==
    /\ ServerOff
    /\ verb = CDBA_BOOT /\ has_tty = FALSE /\ fastboot_repeat = FALSE /\ image_size = 0
    /\ power_cycles = 0
    /\ NoDeadline
    /\ ClientStarted

NextRecvClient ==
    \/ ClientTop
    \/ ClientSelect(now, {"out"})
    \/ \E n \in 0..(CIRC_BUF_SIZE - 1) : ClientStdout(n)
    \/ ClientStdoutEof
    \/ \E m \in RecvFrames : Len(cli_sent) < MaxCliFrames /\ EnvServerSend(m)
    \/ EnvServerClose

InitRecv == InitServer \/ InitRecvClient

NextRecv == NextServer \/ NextRecvClient

SpecRecv == InitRecv /\ [][NextRecv]_vars

(***************************************************************************)
(* Properties of the server.                                               *)
(***************************************************************************)
\* the elements of a sequence that satisfy a test, in order
RECURSIVE SelectType(_, _)
SelectType(seq, type) ==
    IF seq = <<>> THEN <<>>
    ELSE (IF Head(seq).type = type THEN <<Head(seq)>> ELSE <<>>) \o SelectType(Tail(seq), type)

RECURSIVE SelectOp(_, _)
SelectOp(calls, op) ==
    IF calls = <<>> THEN <<>>
    ELSE (IF Head(calls).op = op THEN <<Head(calls)>> ELSE <<>>) \o SelectOp(Tail(calls), op)

\* what a sequence of download frames must produce: the images handed to
\* boot, one per zero-length frame, and the bytes pending after the last one
RECURSIVE Reassembled(_, _, _)
Reassembled(frames, boots, pending) ==
    IF frames = <<>> THEN [boots |-> boots, pending |-> pending]
    ELSE IF Head(frames).len = 0
         THEN Reassembled(Tail(frames), Append(boots, pending), <<>>)
         ELSE Reassembled(Tail(frames), boots, pending \o Head(frames).data)

DownloadsSeen == Reassembled(SelectType(srv_delivered, MSG_FASTBOOT_DOWNLOAD), <<>>, <<>>)

BootCalls == SelectOp(backend, "boot")

\* C5: every zero-length FASTBOOT_DOWNLOAD frame processed has caused exactly
\* one boot call, whose image is the concatenation, in arrival order, of the
\* download payloads received since the previous terminator; one
\* FASTBOOT_DOWNLOAD acknowledgement was sent per terminator; and the
\* reassembly buffer holds exactly the payloads received since the last
\* terminator, so it is empty right after one.
C5_BootReassembly ==
    /\ [i \in 1..Len(BootCalls) |-> BootCalls[i].arg] = DownloadsSeen.boots
    /\ Len(SelectType(srv_stdout, MSG_FASTBOOT_DOWNLOAD)) = Len(DownloadsSeen.boots)
    /\ fastboot_payload = DownloadsSeen.pending

\* C5 witness: two non-empty download frames and the terminator have been
\* processed, boot was called with their concatenation and the buffer is empty
C5_Witness ==
    /\ Len(BootCalls) = 1
    /\ BootCalls[1].arg = <<21>> \o [i \in 1..12 |-> 30 + i]
    /\ fastboot_payload = <<>>
    /\ Len(SelectType(srv_stdout, MSG_FASTBOOT_DOWNLOAD)) = 1

\* C10 as claimed: once a board is selected, selected_device never changes
C10_SelectedDeviceStable ==
    [][selected_device # NULL => selected_device' = selected_device]_vars

(***************************************************************************)
(* Properties of the client.                                               *)
(***************************************************************************)
\* the payload bytes of the CONSOLE frames tty_callback wrote, in order
RECURSIVE TtyConsoleBytes(_)
TtyConsoleBytes(frames) ==
    IF frames = <<>> THEN <<>>
    ELSE (IF Head(frames).src = 0 /\ Head(frames).type = MSG_CONSOLE
          THEN Head(frames).data ELSE <<>>) \o TtyConsoleBytes(Tail(frames))

\* what the terminal bytes read so far must have forwarded, position by
\* position: nothing for a 0x01 byte; for a byte right after a 0x01 byte
\* nothing, or one 0x01 if it is `a`; the byte itself otherwise
RECURSIVE Forwarded(_, _)
Forwarded(rx, i) ==
    IF i > Len(rx) THEN <<>>
    ELSE (IF rx[i] = ESC_PREFIX THEN <<>>
          ELSE IF i > 1 /\ rx[i - 1] = ESC_PREFIX
               THEN (IF rx[i] = KEY_a THEN <<ESC_PREFIX>> ELSE <<>>)
               ELSE <<rx[i]>>) \o Forwarded(rx, i + 1)

\* C2: whatever the split of the terminal input into reads, the CONSOLE
\* payload written by tty_callback is the input with every 0x01 byte and
\* every byte that directly follows a 0x01 byte removed, except that `a`
\* after 0x01 yields one 0x01 byte; all other bytes appear unchanged, in order.
C2_EscapeConsumed == TtyConsoleBytes(ssh_stdin) = Forwarded(tty_rx, 1)

\* C2 witness: x, 0x01, a were typed and read one byte per read, so that the
\* prefix and the `a` came in different reads; x and one 0x01 were forwarded
C2_Witness ==
    /\ tty_rx = <<120, ESC_PREFIX, KEY_a>>
    /\ tty_reads = 3
    /\ special = FALSE
    /\ cli_pc = "top"
    /\ TtyConsoleBytes(ssh_stdin) = <<120, ESC_PREFIX>>

\* the console bytes handed to handle_console so far
RECURSIVE ConsoleStream(_)
ConsoleStream(msgs) ==
    IF msgs = <<>> THEN <<>>
    ELSE (IF Head(msgs).type = MSG_CONSOLE THEN Head(msgs).data ELSE <<>>)
         \o ConsoleStream(Tail(msgs))

\* a contiguous run of n `~` occurs in s
HasTildeRun(s, n) ==
    \E i \in 1..(Len(s) - n + 1) : \A j \in i..(i + n - 1) : s[j] = TILDE

\* C3: received_power_off is set exactly when the console stream received so
\* far, across CONSOLE frames, contains a contiguous run of 20 `~`; at any
\* time power_off_chars is the length of the run of `~` that ends the stream
\* (counted from the last completed sentinel).
C3_PowerOffSentinel ==
    /\ received_power_off <=> HasTildeRun(ConsoleStream(cli_delivered), POWER_OFF_RUN + 1)
    /\ ~HasTildeRun(ConsoleStream(cli_delivered), POWER_OFF_RUN + 1) =>
          LET s == ConsoleStream(cli_delivered)
          IN  /\ power_off_chars <= Len(s)
              /\ \A j \in (Len(s) - power_off_chars + 1)..Len(s) : s[j] = TILDE
              /\ power_off_chars < Len(s) => s[Len(s) - power_off_chars] # TILDE

\* C3 witness: a run of 19 `~` in one frame left the flag clear and one more
\* `~` in the next frame set it
C3_Witness ==
    /\ cli_delivered = <<Msg(MSG_CONSOLE, Tildes(POWER_OFF_RUN)), Msg(MSG_CONSOLE, Tildes(1))>>
    /\ received_power_off

(***************************************************************************)
(* The receive path of both peers.                                         *)
(***************************************************************************)
\* the bytes of a sequence of frames, as written to the stream
RECURSIVE Flatten(_)
Flatten(msgs) == IF msgs = <<>> THEN <<>> ELSE Encode(Head(msgs)) \o Flatten(Tail(msgs))

\* how many of the leading frames of msgs lie wholly within the first n bytes
RECURSIVE WholeFrames(_, _)
WholeFrames(msgs, n) ==
    IF msgs = <<>> \/ n < MSG_HDR + Head(msgs).len THEN 0
    ELSE 1 + WholeFrames(Tail(msgs), n - (MSG_HDR + Head(msgs).len))

\* sent: the frames written to the stream; rx: the bytes read from it so far;
\* delivered: the messages dispatched; ring: the receive buffer; stops: the
\* types at which the receiver ends its loop
ReceivedExactly(sent, rx, delivered, ring, stopped(_)) ==
    LET k == WholeFrames(sent, Len(rx))
        n == Len(delivered)
    IN  /\ n <= k
        /\ delivered = SubSeq(sent, 1, n)
        /\ n < k => n > 0 /\ stopped(delivered[n].type)
        /\ CircBytes(ring) = SubSeq(rx, Len(Flatten(delivered)) + 1, Len(rx))

\* the frame types at which handle_stdin exits
SrvStops(type) == type \notin MSG_SELECT_BOARD..MSG_FASTBOOT_CONTINUE

\* the frame types at which handle_message returns -1
CliStops(type) ==
    type = MSG_BOARD_INFO
    \/ type \notin (MSG_SELECT_BOARD..MSG_FASTBOOT_BOOT) \cup {MSG_STATUS_UPDATE, MSG_LIST_DEVICES}

\* C1: on either peer, whatever the split of the stream into reads, the
\* messages dispatched so far are exactly the leading frames of the stream
\* whose last byte has been read, each once and in send order (fewer only
\* after a frame at which the receiver ends its loop), and the ring holds
\* exactly the bytes read after the last dispatched frame: an incomplete
\* frame is left in the ring and nothing of it is dispatched.
C1_FramesDeliveredAtBoundary ==
    /\ ReceivedExactly(srv_sent, srv_rx, srv_delivered, srv_recv_buf, SrvStops)
    /\ ReceivedExactly(cli_sent, cli_rx, cli_delivered, cli_recv_buf, CliStops)

\* C1 witness: a peer has read more bytes than its ring holds, so the ring
\* wrapped, has dispatched two frames and keeps the incomplete third
C1_Witness ==
    \/ /\ Len(cli_rx) > CIRC_BUF_SIZE
       /\ Len(cli_delivered) = 2
       /\ CIRC_AVAIL(cli_recv_buf) > MSG_HDR
       /\ Len(cli_sent) = 3
    \/ /\ Len(srv_rx) > CIRC_BUF_SIZE
       /\ Len(srv_delivered) = 2
       /\ CIRC_AVAIL(srv_recv_buf) > MSG_HDR
       /\ Len(srv_sent) = 3

(***************************************************************************)
(* Streaming of the boot image.                                            *)
(***************************************************************************)
\* the FASTBOOT_DOWNLOAD frames work item id wrote, in order
RECURSIVE ChunksOf(_, _)
ChunksOf(frames, id) ==
    IF frames = <<>> THEN <<>>
    ELSE LET f == Head(frames)
         IN  (IF f.type = MSG_FASTBOOT_DOWNLOAD /\ f.src = id THEN <<f>> ELSE <<>>)
                \o ChunksOf(Tail(frames), id)

RECURSIVE Payloads(_)
Payloads(frames) ==
    IF frames = <<>> THEN <<>> ELSE Head(frames).data \o Payloads(Tail(frames))

\* the ids of the work items request_fastboot_files allocated
StreamIds == 4..(next_id - 1)

Queued(id) == \E i \in 1..Len(work_items) : work_items[i].id = id

\* C4: for every boot image and every pattern of EAGAIN results, the chunks
\* of one stream are the image in order: every frame but the last has a
\* payload of 1 to 2048 bytes, a zero-length frame comes only when the
\* whole image has gone out, nothing follows it (the item leaves the queue
\* with it and stays queued before it), and the payloads so far are a prefix
\* of the image, the whole image once the zero-length frame is out.
C4_BootChunking ==
    \A id \in StreamIds :
        LET ch == ChunksOf(ssh_stdin, id)
            n == Len(ch)
            sent == Payloads(ch)
            ended == n > 0 /\ ch[n].len = 0
        IN  /\ \A i \in 1..n : ch[i].len = Len(ch[i].data) /\ ch[i].len <= FASTBOOT_CHUNK
            /\ \A i \in 1..(n - 1) : ch[i].len > 0
            /\ sent = SubSeq(Image, 1, Len(sent))
            /\ ended => sent = Image
            /\ cli_pc # "exited" => (Queued(id) <=> ~ended)

\* C4 witness: a 5000-byte image went out as 2048, 2048, 904, 0 although
\* two writes reported EAGAIN
C4_Witness ==
    /\ image_size = 2 * FASTBOOT_CHUNK + 904
    /\ eagain = MaxAgain
    /\ LET ch == ChunksOf(ssh_stdin, 4)
       IN  /\ Len(ch) = 4
           /\ [i \in 1..4 |-> ch[i].len] = <<FASTBOOT_CHUNK, FASTBOOT_CHUNK, 904, 0>>

(***************************************************************************)
(* The end of the client: deadlines, power cycles, exit status.            *)
(***************************************************************************)
\* a FASTBOOT_PRESENT frame with payload byte b was dispatched
PresentSeen(b) ==
    \E i \in 1..Len(cli_delivered) :
        /\ cli_delivered[i].type = MSG_FASTBOOT_PRESENT
        /\ cli_delivered[i].data = <<b>>

TimedOut == cli_pc = "exited" /\ reached_timeout

C7_InfoDeniedExitsOne ==
    /\ verb = CDBA_INFO
    /\ cli_pc = "exited"
    /\ \/ cli_delivered = <<Msg(MSG_BOARD_INFO, <<>>)>>
       \/ cli_delivered = <<>> /\ exit_cause = "stdout_error"
    => exit_code = EXIT_FAIL

\* the loop was left at a transport error or at a frame of unknown type
TransportEnd == exit_cause \in {"stderr_eof", "stderr_error", "stdout_error", "unknown_type"}

\* C8: a client that leaves its loop at EOF or a read error (other than
\* EAGAIN) on the server's stdout or stderr, or at a frame of unknown type,
\* with quit, received_power_off and reached_timeout all clear, exits with
\* status 1.
C8_TransportErrorExitsOne ==
    /\ cli_pc = "exited"
    /\ TransportEnd
    /\ ~quit /\ ~received_power_off /\ ~reached_timeout
    => exit_code = EXIT_FAIL

\* C8 witness: a frame of unknown type ended the session with status 1
\* after other frames had been handled
C8_Witness ==
    /\ cli_pc = "exited"
    /\ exit_cause = "unknown_type"
    /\ Len(cli_delivered) = 2
    /\ exit_code = EXIT_FAIL

\* the loop is at its top with a trigger set
Triggered == cli_pc = "top" /\ ~quit /\ (received_power_off \/ reached_timeout)

\* the power cycle block, for a positive counter
PowerCycleBlock ==
    Triggered /\ power_cycles > 0 =>
        IF reached_timeout /\ ~power_cycle_on_timeout
        THEN cli_pc' = "exited"
        ELSE /\ power_cycles' = power_cycles - 1
             /\ auto_power_on'
             /\ ~received_power_off' /\ ~reached_timeout'
             /\ work_items' = Append(work_items, PowerOffWork)
             /\ timeout_inactivity_tv' = now + timeout_inactivity
             /\ cli_pc' = "select"

\* a power cycle takes one from a positive counter
CountedDown == power_cycles' # power_cycles => power_cycles > 0 /\ power_cycles' = power_cycles - 1

\* C9: every step of the client from the top of the loop with a trigger
\* set and power_cycles > 0 either exits (timeout, no power cycle on
\* timeout) or takes one from power_cycles, sets auto_power_on, clears both
\* triggers, enqueues one POWER_OFF request, rearms the inactivity deadline
\* and goes on; power_cycles changes in no other way than by one down from
\* a positive value, so that it never becomes negative and a session
\* started with N performs at most N power cycles.
C9_PowerCycles == [][PowerCycleBlock /\ CountedDown]_cli_vars

(***************************************************************************)
(* The end of the server.                                                  *)
(***************************************************************************)
SrvEnded == srv_pc \in {"done", "exit1"}

\* C11: whenever the server has ended with a board selected, its last call
\* to the back-end is the close of the selected device.
C11_CloseOnExit ==
    SrvEnded /\ selected_device # NULL =>
        /\ backend # <<>>
        /\ backend[Len(backend)] = [op |-> "close", dev |-> selected_device, arg |-> <<>>]

\* ---- the server's timers
TimerEntries == SelectSeq(srv_log, LAMBDA e : e.cb = "timer")

\* every timer callback of an iteration runs before its read callback
TimersBeforeReads ==
    \A i, j \in 1..Len(srv_log) :
        srv_log[i].cb = "timer" /\ srv_log[j].cb = "read" => i < j

\* a timer whose callback ran is off the list, and ran once
FiredOnceAndRemoved ==
    /\ \A i \in 1..Len(TimerEntries), k \in 1..Len(timer_watches) :
           TimerEntries[i].t.cb # timer_watches[k].cb
    /\ \A i, j \in 1..Len(TimerEntries) :
           TimerEntries[i].t.cb = TimerEntries[j].t.cb => i = j

\* the callbacks of an iteration run in the order of the timers' deadlines
InDeadlineOrder ==
    \A i, j \in 1..Len(TimerEntries) :
        TimerEntries[i].t.tv < TimerEntries[j].t.tv => i < j

\* C12: when an iteration finds two timers expired, both callbacks run before
\* the read callback, the one with the earlier deadline first, and each runs
\* once and is taken off the list.
C12_TimersInDeadlineOrder ==
    TimersBeforeReads /\ FiredOnceAndRemoved /\ InDeadlineOrder

(***************************************************************************)
(* The client's work queue and the order of its requests.                  *)
(***************************************************************************)
\* the step is a work function whose write reported EAGAIN
WouldBlock == cli_pc = "work" /\ eagain' = eagain + 1

\* C13: a work item whose write would block goes back to the head of the
\* queue: the queue after the step is the queue before it, so the item
\* keeps its place before every item queued behind it.
C13_RequeueAtHead == [][WouldBlock => work_items' = work_items]_cli_vars

\* the frames on the wire of one type that work items wrote
WorkFrames(type) == SelectSeq(ssh_stdin, LAMBDA f : f.type = type /\ f.src # 0)

QueuedFn(fn) == SelectSeq(work_items, LAMBDA w : w.fn = fn)

\* POWER_ON requests queued or written equal the SELECT_BOARD
\* acknowledgements dispatched
PowerOnPerAck ==
    cli_pc # "exited" =>
        Len(QueuedFn("power_on")) + Len(WorkFrames(MSG_POWER_ON))
            = Len(SelectSeq(cli_delivered, LAMBDA m : m.type = MSG_SELECT_BOARD))

\* C16: in boot mode the first frame the client writes is the SELECT_BOARD
\* request, and there is one automatic POWER_ON, queued or written, for each
\* SELECT_BOARD acknowledgement received and none before it.
C16_SelectAckPowerOn ==
    /\ ssh_stdin # <<>> => ssh_stdin[1].type = MSG_SELECT_BOARD
    /\ PowerOnPerAck

(***************************************************************************)
(* The bytes on the stream to the server.                                  *)
(***************************************************************************)
\* the bytes of what the writes put on the stream, in order
RECURSIVE WireBytes(_)
WireBytes(frames) ==
    IF frames = <<>> THEN <<>>
    ELSE (IF Head(frames).type = NULL THEN Head(frames).data
          ELSE <<Head(frames).type, Head(frames).len % 256, Head(frames).len \div 256>>
                   \o Head(frames).data)
         \o WireBytes(Tail(frames))

\* bytes is a concatenation of frames, each a header and len payload bytes
RECURSIVE CompleteFrames(_)
CompleteFrames(bytes) ==
    \/ bytes = <<>>
    \/ /\ Len(bytes) >= MSG_HDR
       /\ Len(bytes) >= MSG_HDR + HdrLen(bytes)
       /\ CompleteFrames(SubSeq(bytes, MSG_HDR + HdrLen(bytes) + 1, Len(bytes)))

\* the entries of the wire that work items wrote are whole frames
WorkFramesWhole ==
    \A i \in 1..Len(ssh_stdin) :
        ssh_stdin[i].src # 0 =>
            ssh_stdin[i].type # NULL /\ ssh_stdin[i].len = Len(ssh_stdin[i].data)

\* C14: whatever the outcomes of the writes, a full pipe included, the
\* bytes the client has put on the stream to the server are a concatenation
\* of complete frames.
C14_NoPartialFrame == CompleteFrames(WireBytes(ssh_stdin))

(***************************************************************************)
(* The client's deadlines.                                                 *)
(***************************************************************************)
\* C15 as stated: with an inactivity timeout configured the inactivity
\* deadline is never after the total deadline.
C15_InactivityWithinTotal ==
    timeout_inactivity # 0 /\ cli_pc # "off" => timeout_inactivity_tv <= timeout_total_tv

\* select returns 0
TimeoutStep == cli_pc = "select" /\ reached_timeout' /\ ~reached_timeout

\* C15: with an inactivity timeout configured, the wait of select ends at
\* the earlier of the two deadlines; the inactivity deadline itself may lie
\* after the total deadline once it has been rearmed.
C15_EarlierDeadlineApplies ==
    [][TimeoutStep /\ timeout_inactivity # 0 =>
          now' = MIN(timeout_inactivity_tv, timeout_total_tv)]_cli_vars

\* C15 witness: the inactivity deadline was rearmed past the total deadline
\* and the timeout came at the total deadline.
C15_Witness ==
    /\ timeout_inactivity # 0
    /\ timeout_inactivity_tv > timeout_total_tv
    /\ reached_timeout /\ now = timeout_total_tv

\* the POWER_OFF acknowledgements dispatched
PowerOffAcks == SelectSeq(cli_delivered, LAMBDA m : m.type = MSG_POWER_OFF)

\* an automatic POWER_ON is queued or written only for an acknowledgement
PowerOnOnlyOnAck ==
    Len(QueuedFn("power_on")) + Len(WorkFrames(MSG_POWER_ON)) <= Len(PowerOffAcks)

\* C17: the POWER_ON of an automatic power cycle is queued only once the
\* server has acknowledged the POWER_OFF, and the client does not end
\* before it has written a POWER_ON for every acknowledged POWER_OFF.
C17_PowerOnFollowsAck ==
    /\ PowerOnOnlyOnAck
    /\ cli_pc = "exited" => Len(WorkFrames(MSG_POWER_ON)) = Len(PowerOffAcks)

\* C20: with power cycles left and power-cycling on timeout enabled, the
\* client does not end because a deadline ran out: not through the power
\* cycle block and not through the select that follows the deadline.
C20_ExpiryNotFatal ==
    cli_pc = "exited" /\ exit_cause \in {"no_cycles", "no_cycle_on_timeout", "err_select"}
        => power_cycles = 0 \/ ~power_cycle_on_timeout

(***************************************************************************)
(* The fastboot endpoint coming and going.                                 *)
(***************************************************************************)
\* the i-th frame dispatched is FASTBOOT_PRESENT with payload byte b
PresentAt(i, b) ==
    cli_delivered[i].type = MSG_FASTBOOT_PRESENT /\ cli_delivered[i].data = <<b>>

\* fastboot_done as the i-th frame found it: an earlier FASTBOOT_PRESENT(0)
DoneBefore(i) == \E j \in 1..(i - 1) : PresentAt(j, 0)

\* C18: a download item has been made for exactly those FASTBOOT_PRESENT(1)
\* frames that found fastboot_done false or the repeat flag set.
C18_DownloadIffNotDoneOrRepeat ==
    Cardinality(StreamIds) =
        Cardinality({i \in 1..Len(cli_delivered) :
                        PresentAt(i, 1) /\ (~DoneBefore(i) \/ fastboot_repeat)})

\* C18 witness: with the repeat flag, the endpoint went away and came back,
\* and the download item of the second sighting is queued.
C18_Witness ==
    /\ fastboot_repeat
    /\ \E i \in 1..Len(cli_delivered) : PresentAt(i, 1) /\ DoneBefore(i)
    /\ \E id \in StreamIds : Queued(id)

\* C19 as stated: quit is set by the FASTBOOT_PRESENT(0) that finds
\* fastboot_done already set with the repeat flag off, and by no other.
C19_QuitOnDisappearance ==
    /\ fastboot_done <=> PresentSeen(0)
    /\ quit <=> ~fastboot_repeat /\ \E i \in 1..Len(cli_delivered) :
                                        PresentAt(i, 0) /\ DoneBefore(i)

\* C19: FASTBOOT_PRESENT(0) sets fastboot_done and nothing else; quit is
\* set by the FASTBOOT_PRESENT(1) that finds fastboot_done set with the
\* repeat flag off, and by no other FASTBOOT_PRESENT frame.
C19_QuitOnReappearance ==
    /\ fastboot_done <=> PresentSeen(0)
    /\ quit <=> ~fastboot_repeat /\ \E i \in 1..Len(cli_delivered) :
                                        PresentAt(i, 1) /\ DoneBefore(i)

\* C19 witness: the endpoint went away and came back without the repeat
\* flag; quit is set and no download item was made.
C19_Witness ==
    /\ ~fastboot_repeat /\ quit /\ fastboot_done
    /\ cli_delivered = <<Msg(MSG_FASTBOOT_PRESENT, <<0>>), Msg(MSG_FASTBOOT_PRESENT, <<1>>)>>
    /\ StreamIds = {}

(***************************************************************************)
(* The links of the work queue.                                            *)
(***************************************************************************)
\* C21: no work item is in the work queue twice; the static POWER_ON item
\* and the static POWER_OFF item are not enqueued again while queued.
C21_LinkedAtMostOnce ==
    \A i, j \in 1..Len(work_items) : work_items[i].id = work_items[j].id => i = j

(***************************************************************************)
(* The server's calls to the device back-end.                              *)
(***************************************************************************)
\* the operations on a device; list_devices and info take no device
DeviceOps ==
    {"write", "power", "usb", "send_break", "status_enable", "boot", "fastboot_continue"}

\* C22: every operation on a device that the server has called was called
\* with a board selected.
C22_DeviceOpsOnSelected ==
    \A i \in 1..Len(backend) : backend[i].op \in DeviceOps => backend[i].dev # NULL

(***************************************************************************)
(* Boot-image streams on the wire.                                         *)
(***************************************************************************)
\* the FASTBOOT_DOWNLOAD frames of one stream lie together on the wire
StreamsApart ==
    LET dl == WorkFrames(MSG_FASTBOOT_DOWNLOAD)
    IN  \A i, j, k \in 1..Len(dl) :
            i < j /\ j < k /\ dl[i].src = dl[k].src => dl[j].src = dl[i].src

\* C23: the work queue never holds two download items, and the chunks of
\* two boot-image streams are not interleaved on the wire.
C23_OneDownloadAtATime ==
    /\ Len(QueuedFn("fastboot")) <= 1
    /\ StreamsApart

(***************************************************************************)
(* The total deadline.                                                     *)
(***************************************************************************)
\* no step of the client assigns the total deadline
TotalDeadlineKept == timeout_total_tv' = timeout_total_tv

\* a select entered once the total deadline has been reached returns 0 at once
ExpiredWaitTimesOut ==
    cli_pc = "select" /\ now >= timeout_total_tv =>
        reached_timeout' /\ now' = now /\ cli_pc' = "top"

\* C24: the total deadline is set before the loop and no later step changes
\* it; once it has been reached every wait times out at once, so that each
\* power cycle left is taken with no new waiting period.
C24_TotalDeadlineFixed == [][TotalDeadlineKept /\ ExpiredWaitTimesOut]_cli_vars

====
